---- MODULE Spec2Model ----
(***************************************************************************)
(* State-machine model of the two HCP clients of this repository:          *)
(*   HCPManager (src/HCPInterface/hcp/hcp.py)  - boto3 resource client     *)
(*   HCPHandler (src/NGPIris/hcp/hcp.py)       - boto3 low-level client    *)
(* acting on one S3-compatible object store.  Every public method is one   *)
(* action; the record `last` is the observable outcome of the latest call  *)
(* (exception or normal return, returned value, requests sent).            *)
(* Two further parts are followed on their own: the progress callback      *)
(* ProgressPercentage, called concurrently by the worker threads of one    *)
(* transfer, and the way an upload is split under a TransferConfig.        *)
(***************************************************************************)
EXTENDS Integers, Sequences, FiniteSets, TLC

VARIABLES
    client,     \* which part of the libraries the running program exercises
    remote,     \* the object store: bucket name -> (key -> stored object)
    mBucket,    \* HCPManager.bucket
    mObjects,   \* HCPManager.objects (the cached listing), when the attribute exists
    hBucket,    \* HCPHandler.bucket_name
    bucketAcl,  \* the access control policy of each bucket
    localFS,    \* the local files: path -> content
    last,       \* outcome of the latest call
    tracker,    \* the fields of the ProgressPercentage instance of a transfer
    threads,    \* the transfer's worker threads: where each is in __call__
    now,        \* time.time(), in seconds
    job         \* the transfer configuration, and the plan of the upload planned last

vars == <<client, remote, mBucket, mObjects, hBucket, bucketAcl, localFS, last,
          tracker, threads, now, job>>

----------------------------------------------------------------------------
(* Bounds of the model *)

\* number of keys one list_objects_v2 response carries (1000 on the real
\* store); scaled down so that a bucket can hold more keys than one response
MaxKeys == 2

\* number of worker threads that report progress of one transfer
MaxThreads == 2

\* number of calls of the progress callback during one transfer
MaxCalls == 3

\* seconds a transfer is followed for
MaxTime == 3

----------------------------------------------------------------------------
(* Keys and paths are strings, modelled as sequences of characters *)

K_Af == <<"A", "/", "f">>
K_a  == <<"a", "/">>
K_ad == <<"a", "/", "d", "/">>
K_af == <<"a", "/", "f">>
K_ag == <<"a", "/", "g">>
Empty == <<>>

\* code point of a character (UTF-8 byte order is the store's listing order)
Ord(c) ==
    CASE c = "/" -> 47
      [] c = "A" -> 65
      [] c = "a" -> 97
      [] c = "d" -> 100
      [] c = "f" -> 102
      [] c = "g" -> 103
      [] OTHER   -> 120

Lower(c) == IF c = "A" THEN "a" ELSE c

LowerStr(s) == [i \in 1..Len(s) |-> Lower(s[i])]

Min(a, b) == IF a < b THEN a ELSE b

\* s1 < s2 in the store's (binary, lexicographic) key order
KeyLess(s1, s2) ==
    \/ \E i \in 1..Min(Len(s1), Len(s2)) :
          /\ \A j \in 1..(i - 1) : s1[j] = s2[j]
          /\ Ord(s1[i]) < Ord(s2[i])
    \/ /\ Len(s1) < Len(s2)
       /\ \A j \in 1..Len(s1) : s1[j] = s2[j]

\* Python: sub in s
Contains(s, sub) ==
    \E i \in 0..(Len(s) - Len(sub)) :
        \A j \in 1..Len(sub) : s[i + j] = sub[j]

\* Python: s[-1] == "/"   (s non-empty)
EndsWithSlash(s) == s[Len(s)] = "/"

\* Python: key if key[-1] == "/" else key + "/"
WithSlash(key) == IF EndsWithSlash(key) THEN key ELSE Append(key, "/")

\* os.path.basename
RECURSIVE Basename(_)
Basename(p) ==
    IF p = <<>> THEN <<>>
    ELSE IF \E i \in 1..Len(p) : p[i] = "/"
         THEN Basename(Tail(p))
         ELSE p

----------------------------------------------------------------------------
(* The transfer configuration and the plan of an upload: how                *)
(* upload_file(..., Config = self.transfer_config) splits a file             *)

_KB == 1024
_MB == _KB * _KB

\* TransferConfig of HCPHandler.__init__ without a custom configuration, with
\* chunks of 10 MB
TransferConfig_of_10MB_chunks ==
    [multipart_threshold |-> 10 * _MB, multipart_chunksize |-> 10 * _MB]

\* TransferConfig of HCPHandler.__init__ without a custom configuration
DefaultTransferConfig ==
    [multipart_threshold |-> 10 * _MB, multipart_chunksize |-> 40 * _MB]

\* configurations read from a configuration file
CustomTransferConfigs ==
    {[multipart_threshold |-> 8 * _MB, multipart_chunksize |-> c] :
        c \in {4 * _MB, 5 * _MB, 8 * _MB}}

\* the size_threshold and chunk_size HCPManager reads from its configuration
MTransferConfigs ==
    {DefaultTransferConfig,
     [multipart_threshold |-> 8 * _MB, multipart_chunksize |-> 4 * _MB]}

PlanSizes ==
    {0, 1, 8 * _MB - 1, 8 * _MB, 10 * _MB, 12 * _MB, 40 * _MB, 40 * _MB + 1,
     100 * _MB}

\* the limits of a multipart upload: smallest part, largest number of parts
MinChunksize == 5 * _MB
MaxParts == 10000

\* math.ceil(a / b)
CeilDiv(a, b) == (a + b - 1) \div b

\* the chunk size is doubled until the file fits in MaxParts parts
RECURSIVE AdjustForMaxParts(_, _)
AdjustForMaxParts(chunksize, size) ==
    IF CeilDiv(size, chunksize) > MaxParts
    THEN AdjustForMaxParts(2 * chunksize, size)
    ELSE chunksize

\* the chunk size the transfer uses for a configured multipart_chunksize
adjust_chunksize(chunksize, size) ==
    LET c == AdjustForMaxParts(chunksize, size) IN
    IF c < MinChunksize THEN MinChunksize ELSE c

\* the byte ranges of the parts of a file of `size` bytes
Ranges(size, chunksize) ==
    [i \in 1..CeilDiv(size, chunksize) |->
        [offset |-> (i - 1) * chunksize,
         length |-> Min(chunksize, size - (i - 1) * chunksize)]]

\* how upload_file sends a file of `size` bytes: in one request below the
\* threshold, else as a multipart upload
UploadPlan(size, config) ==
    IF size < config.multipart_threshold
    THEN [multipart |-> FALSE, chunks |-> <<[offset |-> 0, length |-> size]>>]
    ELSE [multipart |-> TRUE,
          chunks |-> Ranges(size, adjust_chunksize(config.multipart_chunksize,
                                                   size))]

----------------------------------------------------------------------------
(* The local file system and the object store *)

Buckets == {"b1", "b2"}          \* the buckets that exist on the endpoint
NoSuchBucket == "nope"           \* a name no bucket of the endpoint has

None == "<None>"                 \* Python's None

\* the contents a file or an object can have
Garbled == "garbled"             \* bytes changed in transit
Preexisting == "old"             \* content of the objects stored before the run

EmptyFile == <<"e">>             \* the path of a local file of 0 bytes
NoBytes == ""                    \* its content

\* the local directory "a/" holds the files "f" and "g"; the empty file lies
\* beside it
InitLocalFS ==
    [p \in {K_af, K_ag, EmptyFile} |->
        IF p = K_af THEN "F" ELSE IF p = K_ag THEN "G" ELSE NoBytes]

LocalFiles == DOMAIN localFS     \* the files that exist locally
LocalDirs == {K_a, <<"a">>}      \* the two spellings of the local directory
LocalFolderFiles == {<<"f">>, <<"g">>}      \* os.listdir of that directory

LocalData(path) == IF path \in LocalFiles THEN localFS[path] ELSE Garbled

\* os.path.exists
Exists(path) == path \in LocalFiles \cup LocalDirs

\* the directory part of a path, without the trailing separator
RECURSIVE Dirname(_)
Dirname(p) ==
    IF p = <<>> THEN <<>>
    ELSE IF p[Len(p)] = "/" THEN SubSeq(p, 1, Len(p) - 1)
    ELSE Dirname(SubSeq(p, 1, Len(p) - 1))

DirExists(d) == d \in {Empty, <<"a">>}

\* bytes of a file with content d
SizeOf(d) == IF d = NoBytes THEN 0 ELSE IF d = "F" THEN 10 * _MB ELSE _MB

\* digest the store reports as the ETag of an object with content d that was
\* stored by one request
RemoteETag(d) == <<"md5", d>>

\* the lengths of the chunks, in order
Lengths(chunks) == [i \in 1..Len(chunks) |-> chunks[i].length]

\* digest the store reports as the ETag of an object with content d sent
\* according to plan: of a multipart upload it is the digest of the digests
\* of the parts, followed by their number
ETag(d, plan) ==
    IF plan.multipart THEN <<"md5", d, Lengths(plan.chunks)>>
    ELSE RemoteETag(d)

\* the chunks of the configuration itself: the file is cut at the configured
\* chunk size
ConfiguredPlan(size, config) ==
    IF size < config.multipart_threshold
    THEN [multipart |-> FALSE, chunks |-> <<[offset |-> 0, length |-> size]>>]
    ELSE [multipart |-> TRUE,
          chunks |-> Ranges(size, config.multipart_chunksize)]

\* the digest HCPManager computes of a local file, from the file alone: of a
\* file the configuration sends in parts, the composed digest of the
\* configured chunks
calculate_etag(local_path) ==
    ETag(LocalData(local_path),
         ConfiguredPlan(SizeOf(LocalData(local_path)), job.config))

NoGrants == {}                   \* the policy of a bucket or object nobody was granted

StoredObject(d) == [data |-> d, etag |-> RemoteETag(d), acl |-> NoGrants]

InitRemote ==
    [b \in Buckets |->
        IF b = "b1"
        THEN [k \in {K_Af, K_a, K_ad, K_af} |-> StoredObject(Preexisting)]
        ELSE [k \in {K_ag} |-> StoredObject(Preexisting)]]

BucketExists(b) == b \in Buckets

KeysOf(b) == IF BucketExists(b) THEN DOMAIN remote[b] ELSE {}

\* the store with object o written under key k of bucket b
PutObject(store, b, k, o) ==
    [store EXCEPT ![b] = [j \in (DOMAIN store[b]) \cup {k} |->
                              IF j = k THEN o ELSE store[b][j]]]

\* the store with the keys ks removed from bucket b (absent keys are ignored)
DeleteKeys(store, b, ks) ==
    [store EXCEPT ![b] = [j \in (DOMAIN store[b]) \ ks |-> store[b][j]]]

\* bytes that arrive when d is sent and the transfer behaves as xfer
Arrived(d, xfer) == IF xfer = "garbled" THEN Garbled ELSE d

\* a transfer that reports every read to the Callback, also one of no bytes
Reported_every_read(bytes_transferred) == TRUE

\* the transfer calls the Callback it was given with the number of bytes it
\* has just read or written, and only when that number is not 0
Reported(bytes_transferred) == bytes_transferred # 0

----------------------------------------------------------------------------
(* The outcome of a call *)

NoCall ==
    [op |-> "none", name |-> "", key |-> Empty, local |-> Empty, keys |-> {},
     outcome |-> "ok", ret |-> {}, objs |-> {}, flag |-> FALSE,
     attempted |-> <<>>, perms |-> {}, grants |-> {}, etags |-> <<>>,
     reqs |-> <<>>, cause |-> "none"]

Returned(op) == [NoCall EXCEPT !.op = op]

Raised(op, exc) == [NoCall EXCEPT !.op = op, !.outcome = exc]

Req(call, r) == [call EXCEPT !.reqs = Append(@, r)]

Alive == last.outcome # "SystemExit"      \* exit() ends the process

----------------------------------------------------------------------------
(* HCPManager  (src/HCPInterface/hcp/hcp.py) *)

Unattached == [kind |-> "none", name |-> ""]           \* self.bucket = None
NamedBucket(b) == [kind |-> "str", name |-> b]         \* self.bucket = "<name>"
BucketResource(b) == [kind |-> "res", name |-> b]      \* self.bucket = s3.Bucket(b)

NoObjects == [has |-> FALSE, list |-> {}]              \* no attribute `objects`
Objects(l) == [has |-> TRUE, list |-> l]

MKeys == {K_af, K_ag}
MSearchStrings == {K_a, <<"f">>}
MLocalPaths == {K_af, <<"x">>}
Transfers == {"ok", "garbled", "fail"}
\* local path, key, transfer: the two paths under every key, and the empty
\* file, whose body has no byte to change
MUploads ==
    (MLocalPaths \X MKeys \X Transfers)
    \cup {<<EmptyFile, K_ag, x>> : x \in Transfers \ {"garbled"}}
DownloadTransfers == {"ok", "fail"}

\* the decorator lets the call through when the instance has an attribute
\* `bucket`; __init__ always sets it (to the argument, None by default)
bucketcheck == TRUE

\* the methods of self.bucket exist only on a boto3 Bucket resource
IsResource == mBucket.kind = "res"

ObjectSummary(b, k) == [bucket_name |-> b, key |-> k]

\* list(self.bucket.objects.all()): the collection pages through the bucket
AllObjects(b) == {ObjectSummary(b, k) : k \in KeysOf(b)}

\* HCPManager.get_object: the loaded Object, or None when the HEAD fails
get_object(store, b, key) ==
    IF BucketExists(b) /\ key \in DOMAIN store[b]
    THEN [found |-> TRUE, bucket_name |-> b, key |-> key,
          e_tag |-> store[b][key].etag]
    ELSE [found |-> FALSE]

MUnchanged ==
    UNCHANGED <<client, hBucket, bucketAcl, localFS, tracker, threads, now, job>>

MGuard == client = "HCPManager" /\ Alive

MRaise(op, exc) ==
    /\ last' = Raised(op, exc)
    /\ UNCHANGED <<remote, mBucket, mObjects>>

\* attach_bucket without the delattr of lines 144-145
M_attach_bucket_keeping_objects(bucket) ==
    /\ MGuard
    /\ IF bucket = None
       THEN MRaise("M.attach_bucket", "ValueError")
       ELSE /\ mBucket' = BucketResource(bucket)
            /\ last' = [Returned("M.attach_bucket") EXCEPT
                            !.name = bucket, !.flag = mObjects.has]
            /\ UNCHANGED <<remote, mObjects>>
    /\ MUnchanged

M_attach_bucket(bucket) ==
    /\ MGuard
    /\ IF bucket = None
       THEN \* log.error, then s3.Bucket(None) raises
            MRaise("M.attach_bucket", "ValueError")
       ELSE /\ mBucket' = BucketResource(bucket)
            /\ mObjects' = NoObjects
            /\ last' = [Returned("M.attach_bucket") EXCEPT
                            !.name = bucket, !.flag = mObjects.has]
            /\ UNCHANGED remote
    /\ MUnchanged

M_get_object(key) ==
    /\ MGuard
    /\ IF ~bucketcheck THEN MRaise("M.get_object", "UnattachedBucketError")
       ELSE IF ~IsResource THEN MRaise("M.get_object", "AttributeError")
       ELSE /\ last' = [Req(Returned("M.get_object"), "HeadObject") EXCEPT
                            !.key = key,
                            !.flag = get_object(remote, mBucket.name, key).found]
            /\ UNCHANGED <<remote, mBucket, mObjects>>
    /\ MUnchanged

M_get_objects ==
    /\ MGuard
    /\ IF ~bucketcheck THEN MRaise("M.get_objects", "UnattachedBucketError")
       ELSE IF ~IsResource THEN MRaise("M.get_objects", "AttributeError")
       ELSE IF mObjects.has
       THEN /\ last' = [Returned("M.get_objects") EXCEPT !.objs = mObjects.list]
            /\ UNCHANGED <<remote, mBucket, mObjects>>
       ELSE IF ~BucketExists(mBucket.name)
       THEN /\ last' = Req(Raised("M.get_objects", "ClientError"), "ListObjects")
            /\ UNCHANGED <<remote, mBucket, mObjects>>
       ELSE /\ mObjects' = Objects(AllObjects(mBucket.name))
            /\ last' = [Req(Returned("M.get_objects"), "ListObjects") EXCEPT
                            !.objs = AllObjects(mBucket.name)]
            /\ UNCHANGED <<remote, mBucket>>
    /\ MUnchanged

M_reload_objects ==
    /\ MGuard
    /\ IF ~bucketcheck THEN MRaise("M.reload_objects", "UnattachedBucketError")
       ELSE IF ~IsResource THEN MRaise("M.reload_objects", "AttributeError")
       ELSE IF ~BucketExists(mBucket.name)
       THEN /\ last' = Req(Raised("M.reload_objects", "ClientError"), "ListObjects")
            /\ UNCHANGED <<remote, mBucket, mObjects>>
       ELSE /\ mObjects' = Objects(AllObjects(mBucket.name))
            /\ last' = [Req(Returned("M.reload_objects"), "ListObjects") EXCEPT
                            !.objs = AllObjects(mBucket.name)]
            /\ UNCHANGED <<remote, mBucket>>
    /\ MUnchanged

M_search_objects(string) ==
    /\ MGuard
    /\ IF ~bucketcheck THEN MRaise("M.search_objects", "UnattachedBucketError")
       ELSE IF ~IsResource THEN MRaise("M.search_objects", "AttributeError")
       ELSE IF mObjects.has
       THEN /\ last' = [Returned("M.search_objects") EXCEPT
                            !.key = string,
                            !.objs = {o \in mObjects.list : Contains(o.key, string)}]
            /\ UNCHANGED <<remote, mBucket, mObjects>>
       ELSE IF ~BucketExists(mBucket.name)
       THEN /\ last' = [Req(Raised("M.search_objects", "ClientError"), "ListObjects")
                            EXCEPT !.key = string]
            /\ UNCHANGED <<remote, mBucket, mObjects>>
       ELSE /\ mObjects' = Objects(AllObjects(mBucket.name))
            /\ last' = [Req(Returned("M.search_objects"), "ListObjects") EXCEPT
                            !.key = string,
                            !.objs = {o \in AllObjects(mBucket.name) :
                                         Contains(o.key, string)}]
            /\ UNCHANGED <<remote, mBucket>>
    /\ MUnchanged

\* self.bucket.delete_objects(Delete={'Objects': [{'Key': obj.key}]})
M_delete_object(key) ==
    /\ MGuard
    /\ IF ~bucketcheck THEN MRaise("M.delete_object", "UnattachedBucketError")
       ELSE IF ~IsResource THEN MRaise("M.delete_object", "AttributeError")
       ELSE IF ~BucketExists(mBucket.name)
       THEN /\ last' = [Req(Raised("M.delete_object", "ClientError"), "DeleteObjects")
                            EXCEPT !.key = key]
            /\ UNCHANGED <<remote, mBucket, mObjects>>
       ELSE /\ remote' = DeleteKeys(remote, mBucket.name, {key})
            /\ last' = [Req(Returned("M.delete_object"), "DeleteObjects") EXCEPT
                            !.key = key]
            /\ UNCHANGED <<mBucket, mObjects>>
    /\ MUnchanged

\* the store after self.bucket.upload_file(...) whose transfer behaved as xfer
Uploaded(store, b, local_path, key, xfer) ==
    LET d == Arrived(LocalData(local_path), xfer)
        plan == UploadPlan(SizeOf(LocalData(local_path)), job.config)
    IN  PutObject(store, b, key, [StoredObject(d) EXCEPT !.etag = ETag(d, plan)])

M_upload_file(local_path, remote_key, xfer) ==
    /\ MGuard
    /\ LET call == [Raised("M.upload_file", "ok") EXCEPT
                        !.local = local_path, !.key = remote_key]
           b == mBucket.name
           sent == Uploaded(remote, b, local_path, remote_key, xfer)
           remote_obj == get_object(sent, b, remote_key)
       IN
       IF ~bucketcheck THEN MRaise("M.upload_file", "UnattachedBucketError")
       ELSE IF ~IsResource THEN MRaise("M.upload_file", "AttributeError")
       ELSE IF local_path \notin LocalFiles
       THEN \* prev_remote_obj is fetched, then ProgressPercentage(local_path)
            \* fails in os.path.getsize
            /\ last' = [Req(call, "HeadObject") EXCEPT
                            !.outcome = "FileNotFoundError"]
            /\ UNCHANGED <<remote, mBucket, mObjects>>
       ELSE IF ~BucketExists(b) \/ xfer = "fail"
       THEN /\ last' = [Req(Req(call, "HeadObject"), "PutObject") EXCEPT
                            !.outcome = "S3UploadFailedError"]
            /\ UNCHANGED <<remote, mBucket, mObjects>>
       ELSE IF SizeOf(LocalData(local_path)) = 0 /\ Reported(0)
       THEN \* the Callback divides by self._size while the body is read
            /\ last' = [Req(Req(call, "HeadObject"), "PutObject") EXCEPT
                            !.outcome = "ZeroDivisionError"]
            /\ UNCHANGED <<remote, mBucket, mObjects>>
       ELSE IF calculate_etag(local_path) # remote_obj.e_tag
       THEN /\ remote' = DeleteKeys(sent, b, {remote_key})
            /\ last' = [Req(Req(Req(Req(call, "HeadObject"), "PutObject"),
                                "HeadObject"), "DeleteObjects")
                            EXCEPT !.outcome = "MismatchChecksumError",
                                   !.etags = <<calculate_etag(local_path),
                                               remote_obj.e_tag>>]
            /\ UNCHANGED <<mBucket, mObjects>>
       ELSE /\ remote' = sent
            /\ last' = [Req(Req(Req(call, "HeadObject"), "PutObject"), "HeadObject")
                            EXCEPT !.etags = <<calculate_etag(local_path),
                                               remote_obj.e_tag>>]
            /\ UNCHANGED <<mBucket, mObjects>>
    /\ MUnchanged

\* path, force: a new file, a file in a directory that does not exist, and
\* the local directory itself
MDownloads == {<<<<"o">>, FALSE>>, <<<<"o">>, TRUE>>,
               <<<<"x", "/", "o">>, FALSE>>, <<<<"a">>, FALSE>>}

\* os.path.join(local_path, name)
Join(local_path, name) == WithSlash(local_path) \o name

\* the local file HCPManager.download_file writes for an object with this key
DownloadTarget(local_path, key) ==
    IF local_path \in LocalDirs THEN Join(local_path, Basename(key))
    ELSE local_path

\* the local files after `data` was written to `path`
Written(fs, path, data) ==
    [p \in (DOMAIN fs) \cup {path} |-> IF p = path THEN data ELSE fs[p]]

\* HCPManager.download_file called with a key string
M_download_file(key, local_path0, force, xfer) ==
    /\ MGuard
    /\ LET b == mBucket.name
           obj == get_object(remote, b, key)
           local_path == DownloadTarget(local_path0, key)
           call == [Req(NoCall, "HeadObject") EXCEPT
                        !.op = "M.download_file", !.key = key,
                        !.local = local_path0, !.flag = force]
           transfer == Req(Req(call, "HeadObject"), "GetObject")
       IN
       IF ~bucketcheck
       THEN MRaise("M.download_file", "UnattachedBucketError") /\ UNCHANGED localFS
       ELSE IF ~IsResource
       THEN MRaise("M.download_file", "AttributeError") /\ UNCHANGED localFS
       ELSE IF local_path0 \in LocalDirs /\ ~obj.found
       THEN \* os.path.basename(obj.key) with obj = None
            /\ last' = [call EXCEPT !.outcome = "AttributeError"]
            /\ UNCHANGED <<remote, mBucket, mObjects, localFS>>
       ELSE IF local_path \in LocalFiles \cup LocalDirs /\ ~force
       THEN /\ last' = [call EXCEPT !.outcome = "LocalFileExistsError"]
            /\ UNCHANGED <<remote, mBucket, mObjects, localFS>>
       ELSE IF ~obj.found
       THEN \* self.bucket.download_file(obj.key, ...) with obj = None
            /\ last' = [call EXCEPT !.outcome = "AttributeError"]
            /\ UNCHANGED <<remote, mBucket, mObjects, localFS>>
       ELSE IF xfer = "fail"
       THEN /\ last' = [transfer EXCEPT !.outcome = "ClientError"]
            /\ UNCHANGED <<remote, mBucket, mObjects, localFS>>
       ELSE IF ~DirExists(Dirname(local_path))
       THEN \* the file is opened when the first bytes have arrived
            /\ last' = [transfer EXCEPT !.outcome = "FileNotFoundError"]
            /\ UNCHANGED <<remote, mBucket, mObjects, localFS>>
       ELSE /\ localFS' = Written(localFS, local_path,
                                  Arrived(remote[b][key].data, xfer))
            /\ last' = transfer
            /\ UNCHANGED <<remote, mBucket, mObjects>>
    /\ UNCHANGED <<client, hBucket, bucketAcl, tracker, threads, now, job>>

NextManager ==
    \/ \E b \in Buckets \cup {NoSuchBucket, None} : M_attach_bucket(b)
    \/ \E k \in MKeys : M_get_object(k)
    \/ M_get_objects
    \/ M_reload_objects
    \/ \E s \in MSearchStrings : M_search_objects(s)
    \/ \E u \in MUploads : M_upload_file(u[1], u[2], u[3])
    \/ \E k \in MKeys : M_delete_object(k)
    \/ \E k \in MKeys, d \in MDownloads, x \in DownloadTransfers :
          M_download_file(k, d[1], d[2], x)

----------------------------------------------------------------------------
(* HCPHandler  (src/NGPIris/hcp/hcp.py, src/NGPIris/hcp/helpers.py) *)

HNames == {"b1", NoSuchBucket, ""}        \* bucket names the caller passes
\* the endpoint answers, cannot be reached, or refuses the credentials (403)
Networks == {"up", "down", "denied"}
HKeys == {K_af, K_ag}
HSearchStrings == {K_a, <<"f">>}
HDeletions == {{K_af}, {K_ag}, {K_af, K_ag}}
HFolderKeys == {K_a, <<"a">>}
HUploads == {<<K_af, K_af>>, <<K_ag, K_af>>, <<<<"x">>, K_af>>}   \* path, key
HFolderUploads == {<<K_a, Empty>>, <<K_a, K_a>>, <<<<"a">>, K_a>>,
                   <<<<"x", "/">>, K_a>>}                          \* folder, key
FolderTransfers ==
    {xs \in [LocalFolderFiles -> {"ok", "fail"}] :
        Cardinality({n \in LocalFolderFiles : xs[n] = "fail"}) <= 1}
Users == {"u1"}
Permissions == {"READ", "EXECUTE"}        \* permissions the caller passes
HAclKeys == {K_a}
\* key_user_ID_permissions: its items in insertion order
HAclDicts ==
    {<<[key |-> K_a, perms |-> [u \in Users |-> p1]],
       [key |-> K_ad, perms |-> [u \in Users |-> p2]]>> :
        p1 \in Permissions, p2 \in Permissions}
HDownloadPaths == {<<"o">>, <<"x", "/", "o">>}

HGuard == client = "HCPHandler" /\ Alive

HUnchangedM == UNCHANGED <<client, mBucket, mObjects, tracker, threads, now, job>>

\* check_mounted: `not self.bucket_name` is true of None and of ""
check_mounted == hBucket # None /\ hBucket # ""

HRaise(op, exc) ==
    /\ last' = Raised(op, exc)
    /\ UNCHANGED <<remote, hBucket, bucketAcl, localFS>>

HNotMounted(op) == HRaise(op, "NoBucketMounted")

\* the answer of head_bucket for `name`: what test_connection raises, or "ok"
HeadBucket(name, net) ==
    IF net = "down" THEN "VPNConnectionError"        \* EndpointConnectionError
    ELSE IF net = "denied" THEN "BucketNotFound"     \* ClientError, 403
    ELSE IF ~BucketExists(name) THEN "BucketNotFound"   \* ClientError, 404
    ELSE "ok"

\* the kind of error the store or the connection has raised for a request
\* that finds, or does not find, what it names
StoreError(net, found) ==
    IF net = "down" THEN "network"
    ELSE IF net = "denied" THEN "auth"
    ELSE IF ~found THEN "not-found"
    ELSE "none"

\* HCPHandler.test_connection: the outcome and the requests it sends
test_connection(bucket_name, net) ==
    IF bucket_name = "" /\ hBucket # None /\ hBucket # ""
    THEN [outcome |-> HeadBucket(hBucket, net), reqs |-> <<"HeadBucket">>,
          cause |-> StoreError(net, BucketExists(hBucket))]
    ELSE IF bucket_name # ""
    THEN [outcome |-> HeadBucket(bucket_name, net), reqs |-> <<"HeadBucket">>,
          cause |-> StoreError(net, BucketExists(bucket_name))]
    ELSE [outcome |-> "RuntimeError", reqs |-> <<>>, cause |-> "none"]

H_test_connection(bucket_name, net) ==
    /\ HGuard
    /\ LET t == test_connection(bucket_name, net) IN
       last' = [Raised("H.test_connection", t.outcome) EXCEPT
                    !.name = bucket_name, !.reqs = t.reqs, !.cause = t.cause]
    /\ UNCHANGED <<remote, hBucket, bucketAcl, localFS>>
    /\ HUnchangedM

H_mount_bucket(bucket_name, net) ==
    /\ HGuard
    /\ LET t == test_connection(bucket_name, net) IN
       /\ last' = [Raised("H.mount_bucket", t.outcome) EXCEPT
                       !.name = bucket_name, !.reqs = t.reqs,
                       !.cause = t.cause]
       /\ hBucket' = IF t.outcome = "ok" THEN bucket_name ELSE hBucket
    /\ UNCHANGED <<remote, bucketAcl, localFS>>
    /\ HUnchangedM

\* the "Contents" of the one list_objects_v2 response list_objects reads:
\* the first MaxKeys keys of the bucket in key order
Contents(store, b) ==
    {k \in DOMAIN store[b] :
        Cardinality({j \in DOMAIN store[b] : KeyLess(j, k)}) < MaxKeys}

\* HCPHandler.list_objects(name_only = True)
list_objects(store, b) == Contents(store, b)

H_list_objects(name_only) ==
    /\ HGuard
    /\ IF ~check_mounted THEN HNotMounted("H.list_objects")
       ELSE /\ last' = [Req(Returned("H.list_objects"), "ListObjectsV2") EXCEPT
                            !.flag = name_only,
                            !.ret = IF name_only THEN list_objects(remote, hBucket)
                                    ELSE {},
                            !.objs = IF name_only THEN {}
                                     ELSE {[Key |-> k, ETag |-> remote[hBucket][k].etag] :
                                              k \in Contents(remote, hBucket)}]
            /\ UNCHANGED <<remote, hBucket, bucketAcl, localFS>>
    /\ HUnchangedM

\* get_object without the check_mounted decorator
H_get_object_undecorated(key) ==
    /\ HGuard
    /\ last' = [Req(Returned("H.get_object"), "GetObject") EXCEPT
                    !.key = key,
                    !.outcome = IF key \in KeysOf(hBucket) THEN "ok"
                                ELSE "ClientError"]
    /\ UNCHANGED <<remote, hBucket, bucketAcl, localFS>>
    /\ HUnchangedM

H_get_object(key) ==
    /\ HGuard
    /\ IF ~check_mounted THEN HNotMounted("H.get_object")
       ELSE /\ last' = [Req(Returned("H.get_object"), "GetObject") EXCEPT
                            !.key = key,
                            !.outcome = IF key \in KeysOf(hBucket) THEN "ok"
                                        ELSE "ClientError"]
            /\ UNCHANGED <<remote, hBucket, bucketAcl, localFS>>
    /\ HUnchangedM

\* the bare `except:` turns every failure of the inner get_object into False
H_object_exists(key) ==
    /\ HGuard
    /\ IF ~check_mounted THEN HNotMounted("H.object_exists")
       ELSE /\ last' = [Req(Returned("H.object_exists"), "GetObject") EXCEPT
                            !.key = key,
                            !.flag = key \in KeysOf(hBucket)]
            /\ UNCHANGED <<remote, hBucket, bucketAcl, localFS>>
    /\ HUnchangedM

\* parse.search(search_string, key, case_sensitive = ...) finds a match
Search(search_string, key, case_sensitive) ==
    IF case_sensitive THEN Contains(key, search_string)
    ELSE Contains(LowerStr(key), LowerStr(search_string))

\* HCPHandler.search_objects_in_bucket
search_objects_in_bucket(store, b, search_string, case_sensitive) ==
    {k \in list_objects(store, b) : Search(search_string, k, case_sensitive)}

H_search_objects_in_bucket(search_string, case_sensitive) ==
    /\ HGuard
    /\ IF ~check_mounted THEN HNotMounted("H.search_objects_in_bucket")
       ELSE /\ last' = [Req(Returned("H.search_objects_in_bucket"), "ListObjectsV2")
                            EXCEPT
                            !.key = search_string,
                            !.flag = case_sensitive,
                            !.ret = search_objects_in_bucket(remote, hBucket,
                                        search_string, case_sensitive)]
            /\ UNCHANGED <<remote, hBucket, bucketAcl, localFS>>
    /\ HUnchangedM

\* HCPHandler.delete_objects: the listing before, the deletion, and the keys
\* printed as "could not be deleted because they didn't exist"
HDelete(op, keys, before) ==
    /\ remote' = DeleteKeys(remote, hBucket, keys)
    /\ last' = [Req(Req(before, "ListObjectsV2"), "DeleteObjects") EXCEPT
                    !.op = op,
                    !.keys = keys,
                    !.ret = keys \ list_objects(remote, hBucket)]
    /\ UNCHANGED <<hBucket, bucketAcl, localFS>>

H_delete_objects(keys) ==
    /\ HGuard
    /\ IF ~check_mounted THEN HNotMounted("H.delete_objects")
       ELSE HDelete("H.delete_objects", keys, NoCall)
    /\ HUnchangedM

H_delete_object(key) ==
    /\ HGuard
    /\ IF ~check_mounted THEN HNotMounted("H.delete_object")
       ELSE HDelete("H.delete_object", {key}, NoCall)
    /\ HUnchangedM

\* parse.parse(key + "{}", s) is a Result: s is key followed by at least one
\* character, compared without regard to case (parse's default)
ParseInFolder(key, s) ==
    /\ Len(s) > Len(key)
    /\ \A i \in 1..Len(key) : Lower(s[i]) = Lower(key[i])

\* the list object_path_in_folder of delete_folder
object_path_in_folder(store, b, key) ==
    {s \in search_objects_in_bucket(store, b, key, FALSE) : ParseInFolder(key, s)}

H_delete_folder(key0) ==
    /\ HGuard
    /\ IF ~check_mounted THEN HNotMounted("H.delete_folder")
       ELSE LET key == WithSlash(key0)
                found == object_path_in_folder(remote, hBucket, key)
                searched == [Req(NoCall, "ListObjectsV2") EXCEPT !.key = key0]
            IN  IF \E object_path \in found : EndsWithSlash(object_path)
                THEN /\ last' = [searched EXCEPT !.op = "H.delete_folder",
                                                 !.outcome = "RuntimeError"]
                     /\ UNCHANGED <<remote, hBucket, bucketAcl, localFS>>
                ELSE /\ HDelete("H.delete_folder", found \cup {key}, searched)
    /\ HUnchangedM

\* the body of HCPHandler.upload_file on the store: outcome, store, requests
upload_file(store, b, local_file_path, key0, xfer) ==
    LET key == IF key0 = Empty THEN Basename(local_file_path) ELSE key0 IN
    IF ~Exists(local_file_path)
    THEN [outcome |-> "FileNotFoundError", store |-> store, reqs |-> <<>>]
    ELSE IF local_file_path \in LocalDirs
    THEN [outcome |-> "IsADirectoryError", store |-> store, reqs |-> <<>>]
    ELSE IF xfer = "fail"
    THEN [outcome |-> "S3UploadFailedError", store |-> store,
          reqs |-> <<"PutObject">>]
    ELSE [outcome |-> "ok",
          store |-> Uploaded(store, b, local_file_path, key, xfer),
          reqs |-> <<"PutObject">>]

H_upload_file(local_file_path, key, xfer) ==
    /\ HGuard
    /\ IF ~check_mounted THEN HNotMounted("H.upload_file")
       ELSE LET u == upload_file(remote, hBucket, local_file_path, key, xfer) IN
            /\ remote' = u.store
            /\ last' = [Raised("H.upload_file", u.outcome) EXCEPT
                            !.local = local_file_path,
                            !.key = IF key = Empty THEN Basename(local_file_path)
                                    ELSE key,
                            !.reqs = u.reqs]
            /\ UNCHANGED <<hBucket, bucketAcl, localFS>>
    /\ HUnchangedM

\* the loop of upload_folder over the file names still to visit: the first
\* upload_file that raises ends it
RECURSIVE UploadEach(_, _, _, _, _, _, _, _)
UploadEach(store, b, folder, key, filenames, xfers, attempted, reqs) ==
    IF filenames = <<>>
    THEN [outcome |-> "ok", store |-> store, attempted |-> attempted,
          reqs |-> reqs]
    ELSE LET filename == Head(filenames)
             u == upload_file(store, b, folder \o filename, key \o filename,
                              xfers[filename])
         IN  IF u.outcome # "ok"
             THEN [outcome |-> u.outcome, store |-> u.store,
                   attempted |-> Append(attempted, filename),
                   reqs |-> reqs \o u.reqs]
             ELSE UploadEach(u.store, b, folder, key, Tail(filenames), xfers,
                             Append(attempted, filename), reqs \o u.reqs)

\* the orders in which os.listdir may return the names
Listings(names) ==
    {l \in [1..Cardinality(names) -> names] :
        \A i, j \in 1..Cardinality(names) : i # j => l[i] # l[j]}

H_upload_folder(local_folder_path, key0, filenames, xfers) ==
    /\ HGuard
    /\ IF ~check_mounted THEN HNotMounted("H.upload_folder")
       ELSE IF ~Exists(local_folder_path)
       THEN /\ last' = [Raised("H.upload_folder", "FileNotFoundError") EXCEPT
                            !.local = local_folder_path]
            /\ UNCHANGED <<remote, hBucket, bucketAcl, localFS>>
       ELSE LET key == IF key0 = Empty THEN local_folder_path ELSE key0
                r == UploadEach(remote, hBucket, local_folder_path, key,
                                filenames, xfers, <<>>, <<>>)
            IN  /\ remote' = r.store
                /\ last' = [Raised("H.upload_folder", r.outcome) EXCEPT
                                !.local = local_folder_path,
                                !.key = key,
                                !.attempted = r.attempted,
                                !.reqs = r.reqs]
                /\ UNCHANGED <<hBucket, bucketAcl, localFS>>
    /\ HUnchangedM

\* raise Exception("Could not find object", key, "in bucket", bucket_name)
CouldNotFindObject == "Exception: Could not find object"

H_download_file(key, local_file_path, xfer) ==
    /\ HGuard
    /\ LET call == [Req(NoCall, "HeadObject") EXCEPT
                        !.op = "H.download_file", !.key = key,
                        !.local = local_file_path]
           transfer == Req(Req(call, "HeadObject"), "GetObject")
       IN
       IF ~check_mounted THEN HNotMounted("H.download_file")
       ELSE IF xfer = "denied" \/ key \notin KeysOf(hBucket)
       THEN \* head_object raises ClientError (403, 404), re-raised as a plain
            \* Exception that says the object could not be found
            /\ last' = [call EXCEPT
                            !.outcome = CouldNotFindObject,
                            !.cause = StoreError(IF xfer = "denied" THEN xfer
                                                 ELSE "up",
                                                 key \in KeysOf(hBucket))]
            /\ UNCHANGED <<remote, hBucket, bucketAcl, localFS>>
       ELSE IF xfer = "fail"
       THEN \* the connection is lost: not a ClientError, re-raised as
            \* Exception(e)
            /\ last' = [transfer EXCEPT !.outcome = "Exception",
                                        !.cause = StoreError("down", TRUE)]
            /\ UNCHANGED <<remote, hBucket, bucketAcl, localFS>>
       ELSE IF ~DirExists(Dirname(local_file_path))
       THEN /\ last' = [transfer EXCEPT !.outcome = "Exception"]
            /\ UNCHANGED <<remote, hBucket, bucketAcl, localFS>>
       ELSE /\ localFS' = [p \in LocalFiles \cup {local_file_path} |->
                              IF p = local_file_path
                              THEN Arrived(remote[hBucket][key].data, xfer)
                              ELSE localFS[p]]
            /\ last' = transfer
            /\ UNCHANGED <<remote, hBucket, bucketAcl>>
    /\ HUnchangedM

\* create_access_control_policy: the policy, or exit() at a permission
\* outside the list
ValidPermissions == {"FULL_CONTROL", "WRITE", "WRITE_ACP", "READ", "READ_ACP"}

\* create_access_control_policy without the test of lines 14-16
create_access_control_policy_unvalidated(user_ID_permissions) ==
    [exit |-> FALSE,
     Grants |-> {[ID |-> u, Permission |-> user_ID_permissions[u]] :
                    u \in DOMAIN user_ID_permissions}]

create_access_control_policy(user_ID_permissions) ==
    IF \E u \in DOMAIN user_ID_permissions :
          user_ID_permissions[u] \notin ValidPermissions
    THEN [exit |-> TRUE, Grants |-> {}]
    ELSE [exit |-> FALSE,
          Grants |-> {[ID |-> u, Permission |-> user_ID_permissions[u]] :
                         u \in DOMAIN user_ID_permissions}]

\* the permissions a caller passes in user_ID_permissions
Passed(user_ID_permissions) ==
    {user_ID_permissions[u] : u \in DOMAIN user_ID_permissions}

PutObjectAcl(store, b, key, policy) ==
    [store EXCEPT ![b][key].acl = policy]

H_get_object_acl(key) ==
    /\ HGuard
    /\ IF ~check_mounted THEN HNotMounted("H.get_object_acl")
       ELSE /\ last' = [Req(Returned("H.get_object_acl"), "GetObjectAcl") EXCEPT
                            !.key = key,
                            !.outcome = IF key \in KeysOf(hBucket) THEN "ok"
                                        ELSE "ClientError",
                            !.objs = IF key \in KeysOf(hBucket)
                                     THEN remote[hBucket][key].acl ELSE {}]
            /\ UNCHANGED <<remote, hBucket, bucketAcl, localFS>>
    /\ HUnchangedM

H_get_bucket_acl ==
    /\ HGuard
    /\ IF ~check_mounted THEN HNotMounted("H.get_bucket_acl")
       ELSE /\ last' = [Req(Returned("H.get_bucket_acl"), "GetBucketAcl") EXCEPT
                            !.objs = bucketAcl[hBucket]]
            /\ UNCHANGED <<remote, hBucket, bucketAcl, localFS>>
    /\ HUnchangedM

\* put_object_acl of one key with the policy of user_ID_permissions
ModifyObjectAcl(op, key, user_ID_permissions) ==
    LET acp == create_access_control_policy(user_ID_permissions)
        call == [Returned(op) EXCEPT !.key = key,
                                     !.perms = Passed(user_ID_permissions)]
    IN  IF acp.exit
        THEN /\ last' = [call EXCEPT !.outcome = "SystemExit"]
             /\ UNCHANGED <<remote, hBucket, bucketAcl, localFS>>
        ELSE IF key \notin KeysOf(hBucket)
        THEN /\ last' = [Req(call, "PutObjectAcl") EXCEPT
                             !.outcome = "ClientError", !.grants = acp.Grants]
             /\ UNCHANGED <<remote, hBucket, bucketAcl, localFS>>
        ELSE /\ remote' = PutObjectAcl(remote, hBucket, key, acp.Grants)
             /\ last' = [Req(call, "PutObjectAcl") EXCEPT !.grants = acp.Grants]
             /\ UNCHANGED <<hBucket, bucketAcl, localFS>>

\* put_bucket_acl with the policy of user_ID_permissions
ModifyBucketAcl(op, user_ID_permissions) ==
    LET acp == create_access_control_policy(user_ID_permissions)
        call == [Returned(op) EXCEPT !.perms = Passed(user_ID_permissions)]
    IN
    IF acp.exit
    THEN /\ last' = [call EXCEPT !.outcome = "SystemExit"]
         /\ UNCHANGED <<remote, hBucket, bucketAcl, localFS>>
    ELSE /\ bucketAcl' = [bucketAcl EXCEPT ![hBucket] = acp.Grants]
         /\ last' = [Req(call, "PutBucketAcl") EXCEPT
                         !.grants = acp.Grants]
         /\ UNCHANGED <<remote, hBucket, localFS>>

H_modify_single_object_acl(key, user_ID, permission) ==
    /\ HGuard
    /\ IF ~check_mounted THEN HNotMounted("H.modify_single_object_acl")
       ELSE ModifyObjectAcl("H.modify_single_object_acl", key,
                            [u \in {user_ID} |-> permission])
    /\ HUnchangedM

H_modify_single_bucket_acl(user_ID, permission) ==
    /\ HGuard
    /\ IF ~check_mounted THEN HNotMounted("H.modify_single_bucket_acl")
       ELSE ModifyBucketAcl("H.modify_single_bucket_acl",
                            [u \in {user_ID} |-> permission])
    /\ HUnchangedM

\* the loop of modify_object_acl over the items still to visit
RECURSIVE PutEachAcl(_, _, _, _, _)
PutEachAcl(store, b, items, grants, reqs) ==
    IF items = <<>>
    THEN [outcome |-> "ok", store |-> store, grants |-> grants, reqs |-> reqs]
    ELSE LET item == Head(items)
             acp == create_access_control_policy(item.perms)
         IN  IF acp.exit
             THEN [outcome |-> "SystemExit", store |-> store,
                   grants |-> grants, reqs |-> reqs]
             ELSE IF item.key \notin DOMAIN store[b]
             THEN [outcome |-> "ClientError", store |-> store,
                   grants |-> grants \cup acp.Grants,
                   reqs |-> Append(reqs, "PutObjectAcl")]
             ELSE PutEachAcl(PutObjectAcl(store, b, item.key, acp.Grants), b,
                             Tail(items), grants \cup acp.Grants,
                             Append(reqs, "PutObjectAcl"))

H_modify_object_acl(key_user_ID_permissions) ==
    /\ HGuard
    /\ IF ~check_mounted THEN HNotMounted("H.modify_object_acl")
       ELSE LET r == PutEachAcl(remote, hBucket, key_user_ID_permissions,
                                {}, <<>>)
            IN  /\ remote' = r.store
                /\ last' = [Raised("H.modify_object_acl", r.outcome) EXCEPT
                                !.keys = {key_user_ID_permissions[i].key :
                                             i \in DOMAIN key_user_ID_permissions},
                                !.perms = UNION {Passed(key_user_ID_permissions[i].perms) :
                                             i \in DOMAIN key_user_ID_permissions},
                                !.grants = r.grants,
                                !.reqs = r.reqs]
                /\ UNCHANGED <<hBucket, bucketAcl, localFS>>
    /\ HUnchangedM

H_modify_bucket_acl(user_ID_permissions) ==
    /\ HGuard
    /\ IF ~check_mounted THEN HNotMounted("H.modify_bucket_acl")
       ELSE ModifyBucketAcl("H.modify_bucket_acl", user_ID_permissions)
    /\ HUnchangedM

----------------------------------------------------------------------------
(* ProgressPercentage  (src/HCPInterface/hcp/hcp.py): the callback boto3     *)
(* calls from the worker threads of one transfer                            *)

_interval == 1                   \* self._interval, seconds

Threads == 1..MaxThreads
Unlocked == 0                    \* self._lock is free

FileSize == 131072               \* bytes of the file that is transferred
Sizes == {0, FileSize}           \* self._size: an empty file, or that file
Amounts == {32768, 65536}        \* bytes_amount of one call

\* Python's round(): to the nearest integer, a tie to the even one
Round(num, den) ==
    LET q == num \div den
        r == num % den
    IN  IF 2 * r < den THEN q
        ELSE IF 2 * r > den THEN q + 1
        ELSE IF q % 2 = 0 THEN q ELSE q + 1

\* round(speed / (1024 ** 2), 2) for speed = bytes / seconds, in hundredths
SpeedMB(bytes, seconds) == Round(100 * bytes, seconds * (1024 * 1024))

\* ProgressPercentage.__init__ for a source of `size` bytes
NewTracker(size, time) ==
    [size |-> size, seen_so_far |-> 0, lock |-> Unlocked,
     previous_time |-> time, previous_bytesize |-> 0, speed |-> 0,
     written |-> <<>>, passed |-> 0, calls |-> 0, raised |-> FALSE]

Idle == [pc |-> "idle", bytes_amount |-> 0, loaded |-> 0]

\* _calculate_speed with the sample taken after exactly _interval seconds
calculate_speed_at_interval(t, curr_time) ==
    IF curr_time - _interval >= t.previous_time
    THEN [t EXCEPT !.speed = SpeedMB(t.seen_so_far - t.previous_bytesize,
                                     curr_time - t.previous_time),
                   !.previous_time = curr_time,
                   !.previous_bytesize = t.seen_so_far]
    ELSE t

\* ProgressPercentage._calculate_speed: the tracker after the call (the value
\* returned is its speed)
calculate_speed(t, curr_time) ==
    IF curr_time - _interval > t.previous_time
    THEN [t EXCEPT !.speed = SpeedMB(t.seen_so_far - t.previous_bytesize,
                                     curr_time - t.previous_time),
                   !.previous_time = curr_time,
                   !.previous_bytesize = t.seen_so_far]
    ELSE t

PGuard == client = "ProgressPercentage"

PUnchanged ==
    UNCHANGED <<client, remote, mBucket, mObjects, hBucket, bucketAcl, localFS,
                last, job>>

\* a worker thread calls the callback with the bytes it has transferred
P_call(w, bytes_amount) ==
    /\ PGuard
    /\ threads[w].pc = "idle"
    /\ tracker.calls < MaxCalls
    /\ tracker.passed + bytes_amount <= tracker.size
    /\ Reported(bytes_amount)
    /\ threads' = [threads EXCEPT ![w] = [pc |-> "lock",
                                          bytes_amount |-> bytes_amount,
                                          loaded |-> 0]]
    /\ tracker' = [tracker EXCEPT !.passed = @ + bytes_amount,
                                  !.calls = @ + 1]
    /\ UNCHANGED now
    /\ PUnchanged

\* __call__ without `with self._lock:`
P_enter_unlocked(w) ==
    /\ PGuard
    /\ threads[w].pc = "lock"
    /\ threads' = [threads EXCEPT ![w].pc = "load"]
    /\ UNCHANGED <<tracker, now>>
    /\ PUnchanged

\* with self._lock:  (the thread waits until the lock is free)
P_enter(w) ==
    /\ PGuard
    /\ threads[w].pc = "lock"
    /\ tracker.lock = Unlocked
    /\ tracker' = [tracker EXCEPT !.lock = w]
    /\ threads' = [threads EXCEPT ![w].pc = "load"]
    /\ UNCHANGED now
    /\ PUnchanged

\* self._seen_so_far += bytes_amount: the attribute is read ...
P_load(w) ==
    /\ PGuard
    /\ threads[w].pc = "load"
    /\ threads' = [threads EXCEPT ![w].loaded = tracker.seen_so_far,
                                  ![w].pc = "store"]
    /\ UNCHANGED <<tracker, now>>
    /\ PUnchanged

\* ... and the sum is stored
P_store(w) ==
    /\ PGuard
    /\ threads[w].pc = "store"
    /\ tracker' = [tracker EXCEPT
                       !.seen_so_far = threads[w].loaded + threads[w].bytes_amount]
    /\ threads' = [threads EXCEPT ![w].pc = "speed"]
    /\ UNCHANGED now
    /\ PUnchanged

\* speed = self._calculate_speed()
P_calculate_speed(w) ==
    /\ PGuard
    /\ threads[w].pc = "speed"
    /\ tracker' = calculate_speed(tracker, now)
    /\ threads' = [threads EXCEPT ![w].pc = "write"]
    /\ UNCHANGED now
    /\ PUnchanged

\* the percentage is computed and the line is written; leaving the `with`
\* block, normally or with ZeroDivisionError, releases the lock
P_write(w) ==
    /\ PGuard
    /\ threads[w].pc = "write"
    /\ tracker' =
          IF tracker.size = 0
          THEN [tracker EXCEPT !.raised = TRUE,
                               !.lock = IF @ = w THEN Unlocked ELSE @]
          ELSE [tracker EXCEPT
                    !.written = <<tracker.seen_so_far, tracker.size, tracker.speed,
                                  Round(10000 * tracker.seen_so_far, tracker.size)>>,
                    !.lock = IF @ = w THEN Unlocked ELSE @]
    /\ threads' = [threads EXCEPT ![w] = Idle]
    /\ UNCHANGED now
    /\ PUnchanged

\* a second passes
Tick ==
    /\ PGuard
    /\ now < MaxTime
    /\ now' = now + 1
    /\ UNCHANGED <<tracker, threads>>
    /\ PUnchanged

NextProgress ==
    \/ \E w \in Threads, n \in Amounts \cup {0} : P_call(w, n)
    \/ \E w \in Threads : P_enter(w)
    \/ \E w \in Threads : P_load(w)
    \/ \E w \in Threads : P_store(w)
    \/ \E w \in Threads : P_calculate_speed(w)
    \/ \E w \in Threads : P_write(w)
    \/ Tick

----------------------------------------------------------------------------
(* Planning the upload of a file *)

NoPlan == [multipart |-> FALSE, chunks |-> <<>>]

NewJob(config) == [config |-> config, size |-> 0, plan |-> NoPlan]

\* an upload of a file of `size` bytes is planned under `config`
T_plan_upload(size, config) ==
    /\ client = "TransferConfig"
    /\ job' = [config |-> config, size |-> size, plan |-> UploadPlan(size, config)]
    /\ UNCHANGED <<client, remote, mBucket, mObjects, hBucket, bucketAcl, localFS,
                   last, tracker, threads, now>>

NextTransfer ==
    \E size \in PlanSizes, config \in {DefaultTransferConfig} \cup CustomTransferConfigs :
        T_plan_upload(size, config)

----------------------------------------------------------------------------

\* HCPManager.__init__: bucket is the argument (None by default); a named
\* bucket has answered head_bucket, or the constructor has raised
Init ==
    /\ client \in {"HCPManager", "HCPHandler", "ProgressPercentage", "TransferConfig"}
    /\ remote = InitRemote
    /\ mBucket \in IF client = "HCPManager"
                   THEN {Unattached} \cup {NamedBucket(b) : b \in Buckets}
                   ELSE {Unattached}
    /\ mObjects = NoObjects
    /\ hBucket = None
    /\ bucketAcl = [b \in Buckets |-> NoGrants]
    /\ localFS = InitLocalFS
    /\ last = NoCall
    /\ now = 0
    /\ tracker \in IF client = "ProgressPercentage"
                   THEN {NewTracker(size, 0) : size \in Sizes}
                   ELSE {NewTracker(0, 0)}
    /\ threads = [w \in Threads |-> Idle]
    /\ job \in IF client = "HCPManager"
               THEN {NewJob(config) : config \in MTransferConfigs}
               ELSE {NewJob(DefaultTransferConfig)}

NextHandler ==
    \/ \E n \in HNames, net \in Networks : H_test_connection(n, net)
    \/ \E n \in HNames, net \in Networks : H_mount_bucket(n, net)
    \/ \E name_only \in BOOLEAN : H_list_objects(name_only)
    \/ \E k \in HKeys : H_get_object(k)
    \/ \E k \in HKeys : H_object_exists(k)
    \/ \E st \in HSearchStrings, cs \in BOOLEAN : H_search_objects_in_bucket(st, cs)
    \/ \E ks \in HDeletions : H_delete_objects(ks)
    \/ \E k \in HKeys : H_delete_object(k)
    \/ \E k \in HFolderKeys : H_delete_folder(k)
    \/ \E u \in HUploads, x \in Transfers : H_upload_file(u[1], u[2], x)
    \/ \E u \in HFolderUploads, l \in Listings(LocalFolderFiles),
          xs \in FolderTransfers : H_upload_folder(u[1], u[2], l, xs)
    \/ \E k \in HKeys, p \in HDownloadPaths, x \in DownloadTransfers \cup {"denied"} :
          H_download_file(k, p, x)
    \/ \E k \in HAclKeys : H_get_object_acl(k)
    \/ H_get_bucket_acl
    \/ \E k \in HAclKeys, u \in Users, pm \in Permissions :
          H_modify_single_object_acl(k, u, pm)
    \/ \E u \in Users, pm \in Permissions : H_modify_single_bucket_acl(u, pm)
    \/ \E d \in HAclDicts : H_modify_object_acl(d)
    \/ \E pm \in Permissions : H_modify_bucket_acl([u \in Users |-> pm])

Next ==
    \/ NextManager
    \/ NextHandler
    \/ NextProgress
    \/ NextTransfer

Spec == Init /\ [][Next]_vars

----------------------------------------------------------------------------
(* Properties *)

MListingOps == {"M.get_objects", "M.search_objects"}

MScopedOps ==
    {"M.get_object", "M.get_objects", "M.reload_objects", "M.search_objects",
     "M.upload_file", "M.delete_object"}

HScopedOps ==
    {"H.list_objects", "H.get_object", "H.object_exists", "H.download_file",
     "H.upload_file", "H.upload_folder", "H.delete_objects", "H.delete_object",
     "H.delete_folder", "H.search_objects_in_bucket", "H.get_object_acl",
     "H.get_bucket_acl", "H.modify_single_object_acl",
     "H.modify_single_bucket_acl", "H.modify_object_acl", "H.modify_bucket_acl"}

\* request r was sent, and request q after it
SentAfter(reqs, r, q) ==
    \E i, j \in 1..Len(reqs) : i < j /\ reqs[i] = r /\ reqs[j] = q

\* C1: when HCPManager.upload_file ends in MismatchChecksumError the remote
\* object under remote_key has been deleted, and the listing the same client
\* returns next (get_objects, search_objects) does not contain remote_key.
C1_MismatchRemovesKeyFromListings ==
    [][ /\ (last'.op = "M.upload_file" /\ last'.outcome = "MismatchChecksumError")
            => last'.key \notin DOMAIN remote'[mBucket.name]
        /\ ( /\ last.op = "M.upload_file"
             /\ last.outcome = "MismatchChecksumError"
             /\ last'.op \in MListingOps
             /\ last'.outcome = "ok" )
            => \A o \in last'.objs : o.key # last.key
      ]_vars

\* C2: whenever upload_file of either client returns normally, the metadata of
\* the remote object was fetched again after the transfer and its ETag equals
\* the digest of the local file.
C2_ReturnedUploadIsVerified ==
    (last.op \in {"M.upload_file", "H.upload_file"} /\ last.outcome = "ok")
    => LET b == IF last.op = "M.upload_file" THEN mBucket.name ELSE hBucket IN
       /\ SentAfter(last.reqs, "PutObject", "HeadObject")
       /\ last.key \in DOMAIN remote[b]
       /\ remote[b][last.key].etag = calculate_etag(last.local)

\* C3: an object stored under remote_key before HCPManager.upload_file is
\* called is still stored there, unchanged, after the call, whether the call
\* returns or raises.
C3_UploadKeepsExistingObject ==
    [][ ( /\ last'.op = "M.upload_file"
          /\ IsResource /\ BucketExists(mBucket.name)
          /\ last'.key \in DOMAIN remote[mBucket.name] )
        => /\ last'.key \in DOMAIN remote'[mBucket.name]
           /\ remote'[mBucket.name][last'.key] = remote[mBucket.name][last'.key]
      ]_vars

\* C4: every bucket-scoped operation of HCPHandler called before any
\* successful mount_bucket raises NoBucketMounted, sends no request and
\* changes nothing.
C4_UnmountedRaisesWithoutRequest ==
    [][ (hBucket = None /\ last'.op \in HScopedOps)
        => /\ last'.outcome = "NoBucketMounted"
           /\ last'.reqs = <<>>
           /\ UNCHANGED <<remote, bucketAcl, localFS, hBucket>>
      ]_vars

C4_Witness ==
    /\ hBucket = None
    /\ last.op = "H.get_object"
    /\ last.outcome = "NoBucketMounted"

\* C5: every bucket-scoped operation of HCPManager called on an instance that
\* has no bucket attached raises UnattachedBucketError.
C5_UnattachedRaises ==
    (last.op \in MScopedOps /\ mBucket = Unattached)
    => last.outcome = "UnattachedBucketError"

\* C6: HCPHandler.mount_bucket with the name of a bucket that does not exist
\* raises and leaves bucket_name as it was.
C6_FailedMountKeepsBucket ==
    [][ (last'.op = "H.mount_bucket" /\ ~BucketExists(last'.name))
        => /\ last'.outcome # "ok"
           /\ hBucket' = hBucket
      ]_vars

\* C7: the cached listing of HCPManager and every listing get_objects or
\* search_objects returns hold objects of the attached bucket only, and
\* attach_bucket leaves no cached listing behind.
C7_ListingsComeFromAttachedBucket ==
    /\ mObjects.has
        => /\ IsResource
           /\ \A o \in mObjects.list : o.bucket_name = mBucket.name
    /\ (last.op \in MListingOps /\ last.outcome = "ok")
        => \A o \in last.objs : o.bucket_name = mBucket.name
    /\ (last.op = "M.attach_bucket" /\ last.outcome = "ok") => ~mObjects.has

\* a bucket is attached in place of another whose listing was cached
C7_Witness ==
    /\ last.op = "M.attach_bucket"
    /\ last.outcome = "ok"
    /\ last.flag
    /\ mBucket = BucketResource("b2")
    /\ ~mObjects.has

\* C8: HCPHandler.delete_objects and delete_object do not raise on keys that
\* are missing, and the keys they report as not having existed are exactly
\* the requested keys absent from the bucket when the call was made.
C8_ReportsExactlyTheMissingKeys ==
    [][ (last'.op \in {"H.delete_objects", "H.delete_object"} /\ check_mounted)
        => /\ last'.outcome = "ok"
           /\ last'.ret = {k \in last'.keys : k \notin DOMAIN remote[hBucket]}
      ]_vars

\* k is an immediate child of folder and is itself folder-like
ImmediateSubfolder(folder, k) ==
    /\ Len(k) > Len(folder) + 1
    /\ SubSeq(k, 1, Len(folder)) = folder
    /\ EndsWithSlash(k)
    /\ \A i \in (Len(folder) + 1)..(Len(k) - 1) : k[i] # "/"

\* C9: HCPHandler.delete_folder on a folder with a folder-like immediate
\* child fails with the subfolder error and sends no delete request; the
\* bucket is unchanged.
C9_SubfolderBlocksDeletion ==
    [][ ( /\ last'.op = "H.delete_folder"
          /\ check_mounted
          /\ \E k \in DOMAIN remote[hBucket] :
                ImmediateSubfolder(WithSlash(last'.key), k) )
        => /\ last'.outcome = "RuntimeError"
           /\ ~(\E i \in 1..Len(last'.reqs) : last'.reqs[i] = "DeleteObjects")
           /\ remote' = remote
      ]_vars

\* C10: HCPHandler.upload_folder attempts the upload of every file of the
\* folder, also after the upload of one of them has failed.
C10_EveryFileIsAttempted ==
    ( /\ last.op = "H.upload_folder"
      /\ last.outcome # "NoBucketMounted"
      /\ Exists(last.local) /\ EndsWithSlash(last.local) )
    => {last.attempted[i] : i \in 1..Len(last.attempted)} = LocalFolderFiles

UploadOps == {"M.upload_file", "H.upload_file", "H.upload_folder"}

\* C11: upload_file and upload_folder of either client, called with a local
\* path that does not exist, raise an error before any request is sent to
\* the store.
C11_MissingSourceFailsBeforeAnyRequest ==
    (last.op \in UploadOps /\ last.local # Empty /\ ~Exists(last.local))
    => /\ last.outcome # "ok"
       /\ last.reqs = <<>>

DownloadOps == {"M.download_file", "H.download_file"}

\* the bucket the client of the latest call works on
BucketOf(call) ==
    IF call.op = "M.download_file" THEN mBucket.name ELSE hBucket

\* the latest call got past its decorator and past the attribute lookups on
\* self.bucket
ReachedStore(call) ==
    call.outcome # "NoBucketMounted" /\ ~(call.reqs = <<>> /\ call.outcome = "AttributeError")

Sent(reqs, r) == \E i \in 1..Len(reqs) : reqs[i] = r

\* C12: download_file called with a local path whose directory does not
\* exist is rejected before any request (head, get) is sent to the store
\* (shown for a key the bucket holds).
C12_MissingDestinationFailsBeforeAnyRequest ==
    ( /\ last.op \in DownloadOps
      /\ ReachedStore(last)
      /\ last.key \in KeysOf(BucketOf(last))
      /\ ~DirExists(Dirname(last.local)) )
    => /\ last.outcome # "ok"
       /\ last.reqs = <<>>

\* C13: a download of an existing object whose local target file already
\* exists, called without force, fails with the already-exists error,
\* transfers no bytes and leaves the local file as it was.
C13_ExistingTargetNeedsForce ==
    [][ ( /\ last'.op \in DownloadOps
          /\ ReachedStore(last')
          /\ last'.key \in KeysOf(BucketOf(last'))
          /\ DownloadTarget(last'.local, last'.key) \in LocalFiles
          /\ ~last'.flag )
        => /\ last'.outcome = "LocalFileExistsError"
           /\ ~Sent(last'.reqs, "GetObject")
           /\ localFS' = localFS
      ]_vars

\* the errors of the two clients that report a missing object
NotFoundErrors == {CouldNotFindObject}

\* C14: download_file of either client, called with a key that is not in the
\* bucket, raises a not-found error at once: nothing is transferred and no
\* request is repeated.
C14_MissingKeyRaisesNotFound ==
    ( /\ last.op \in DownloadOps
      /\ ReachedStore(last)
      /\ last.key \notin KeysOf(BucketOf(last)) )
    => /\ last.outcome \in NotFoundErrors
       /\ ~Sent(last.reqs, "GetObject")
       /\ last.reqs = <<"HeadObject">>

AclOps ==
    {"H.modify_single_object_acl", "H.modify_single_bucket_acl",
     "H.modify_object_acl", "H.modify_bucket_acl"}

\* every grant of the policy carries a permission of the list
ValidPolicy(policy) == \A g \in policy : g.Permission \in ValidPermissions

\* C15: no put_object_acl or put_bucket_acl request carries a permission
\* outside {FULL_CONTROL, WRITE, WRITE_ACP, READ, READ_ACP}, no policy stored
\* holds one, and an ACL-modifying call that was passed such a permission
\* does not return.
C15_NoInvalidPermissionIsSent ==
    /\ ValidPolicy(last.grants)
    /\ \A b \in Buckets :
          /\ ValidPolicy(bucketAcl[b])
          /\ \A k \in DOMAIN remote[b] : ValidPolicy(remote[b][k].acl)
    /\ (last.op \in AclOps /\ ~(last.perms \subseteq ValidPermissions))
        => last.outcome # "ok"

\* modify_object_acl has sent the valid policy of its first key and stops at
\* the invalid permission of the second
C15_Witness ==
    /\ last.op = "H.modify_object_acl"
    /\ last.outcome = "SystemExit"
    /\ last.perms = {"READ", "EXECUTE"}
    /\ last.reqs = <<"PutObjectAcl">>
    /\ ValidPolicy(last.grants) /\ last.grants # {}

\* the thread is inside the `with self._lock:` block of __call__
InCall(w) == threads[w].pc \in {"load", "store", "speed", "write"}

\* bytes passed to calls that have not yet added them to the counter
RECURSIVE Pending(_)
Pending(ws) ==
    IF ws = {} THEN 0
    ELSE LET w == CHOOSE x \in ws : TRUE IN
         (IF threads[w].pc \in {"lock", "load", "store"}
          THEN threads[w].bytes_amount ELSE 0) + Pending(ws \ {w})

\* C16: under every interleaving of concurrent calls of
\* ProgressPercentage.__call__ no update is lost: the counter plus the bytes
\* of the calls that have not yet added theirs equals the sum of every
\* bytes_amount passed (so it equals that sum once all calls have ended), and
\* a thread reads or writes the counter only while it holds the lock.
C16_NoUpdateIsLost ==
    /\ \A w \in Threads : InCall(w) => tracker.lock = w
    /\ tracker.seen_so_far + Pending(Threads) = tracker.passed
    /\ (\A w \in Threads : threads[w].pc = "idle")
        => tracker.seen_so_far = tracker.passed

\* one thread is about to store its sum while another waits for the lock,
\* after an earlier call has ended
C16_Witness ==
    /\ client = "ProgressPercentage"
    /\ \E w, v \in Threads :
          /\ threads[w].pc = "store" /\ tracker.lock = w
          /\ threads[v].pc = "lock"
    /\ tracker.seen_so_far > 0

\* a thread executes _calculate_speed in this step
CalculatesSpeed(w) == threads[w].pc = "speed" /\ threads'[w].pc = "write"

\* the sample is taken: rate, time and byte count of the last sample advance
Sampled ==
    /\ tracker'.previous_time = now
    /\ tracker'.previous_bytesize = tracker.seen_so_far
    /\ tracker'.speed = SpeedMB(tracker.seen_so_far - tracker.previous_bytesize,
                                now - tracker.previous_time)

\* the sample state is left as it was, and the previous rate is returned
NotSampled ==
    /\ tracker'.previous_time = tracker.previous_time
    /\ tracker'.previous_bytesize = tracker.previous_bytesize
    /\ tracker'.speed = tracker.speed

\* C17 as stated: _calculate_speed takes a new sample exactly when at least
\* the minimum interval (1 second) has passed since the previous sample.
C17_SampledAtInterval ==
    [][ \A w \in Threads : CalculatesSpeed(w)
          => IF now - tracker.previous_time >= _interval
             THEN Sampled ELSE NotSampled
      ]_vars

\* C17 amended: _calculate_speed takes a new sample exactly when more than
\* the minimum interval (1 second) has passed since the previous sample; in
\* every other call the previous rate is returned and the sample state is
\* left unchanged.
C17_SampledAfterInterval ==
    [][ \A w \in Threads : CalculatesSpeed(w)
          => IF now - tracker.previous_time > _interval
             THEN Sampled ELSE NotSampled
      ]_vars

\* a sample was taken later than the first second and gave a rate
C17_Witness ==
    /\ client = "ProgressPercentage"
    /\ tracker.previous_time >= 2
    /\ tracker.previous_bytesize > 0
    /\ tracker.speed > 0

\* the phases the job of an upload_file call went through, read off the
\* requests it sent: the transfer is the PutObject, the verification is the
\* HeadObject that follows it
TransferPhases(call) ==
    <<"Planning">>
    \o (IF Sent(call.reqs, "PutObject") THEN <<"InFlight">> ELSE <<>>)
    \o (IF SentAfter(call.reqs, "PutObject", "HeadObject")
        THEN <<"Verifying">> ELSE <<>>)
    \o <<IF call.outcome = "ok" THEN "Completed" ELSE "Failed">>

\* C18: the job of every upload_file call goes through Planning, InFlight and
\* Verifying in that order before it completes, ends in exactly one of
\* Completed and Failed, and transfers at most once (no retry of the job).
C18_JobsPassEveryPhaseInOrder ==
    (last.op \in {"M.upload_file", "H.upload_file"} /\ ReachedStore(last))
    => /\ last.outcome = "ok"
           => TransferPhases(last) =
                  <<"Planning", "InFlight", "Verifying", "Completed">>
       /\ Cardinality({i \in 1..Len(last.reqs) : last.reqs[i] = "PutObject"}) <= 1

Planned == job.plan # NoPlan

\* the chunks are contiguous, do not overlap and cover exactly [0, size)
CoversFile(chunks, size) ==
    /\ Len(chunks) >= 1
    /\ chunks[1].offset = 0
    /\ \A i \in 1..(Len(chunks) - 1) :
          /\ chunks[i].length > 0
          /\ chunks[i + 1].offset = chunks[i].offset + chunks[i].length
    /\ chunks[Len(chunks)].offset + chunks[Len(chunks)].length = size
    /\ chunks[Len(chunks)].length >= 0

\* the number of chunks the claim states for a file of the job's size
StatedChunkCount ==
    IF job.size < job.config.multipart_threshold THEN 1
    ELSE CeilDiv(job.size, job.config.multipart_chunksize)

\* the default configuration splits 100 MB into 40 MB, 40 MB and 20 MB
DefaultScenario ==
    (job.config = DefaultTransferConfig /\ job.size = 100 * _MB)
    => [i \in 1..Len(job.plan.chunks) |-> job.plan.chunks[i].length]
           = <<40 * _MB, 40 * _MB, 20 * _MB>>

IsMultipart(etag) == Len(etag) = 3

\* the <count> of a multipart ETag
PartCount(etag) == Len(etag[3])

\* the content the digest was taken of
Digested(etag) == etag[2]

\* C20: the verification of HCPManager.upload_file compares the whole-file
\* digest with a plain remote ETag and, with a remote ETag of the form
\* <hex>-<count>, the composed digest of as many chunks as the remote ETag
\* counts; an upload whose bytes arrived intact never fails the verification.
C20_DigestFollowsRemoteETag ==
    (last.op = "M.upload_file" /\ last.etags # <<>>)
    => LET calculated_etag == last.etags[1]
           e_tag == last.etags[2]
       IN  /\ IsMultipart(calculated_etag) = IsMultipart(e_tag)
           /\ IsMultipart(e_tag) => PartCount(calculated_etag) = PartCount(e_tag)
           /\ last.outcome = "MismatchChecksumError"
               => Digested(calculated_etag) # Digested(e_tag)


\* the local file a download_file call writes
TargetOf(call) ==
    IF call.op = "M.download_file" THEN DownloadTarget(call.local, call.key)
    ELSE call.local

\* C21: when upload_file has returned for a local file and the next call, of
\* the same client, is a download_file of the same key that returns, the file
\* it has written holds the content of the uploaded file.
C21_DownloadReturnsTheUploadedContent ==
    [][(/\ last.op \in {"M.upload_file", "H.upload_file"}
        /\ last.outcome = "ok"
        /\ last'.op \in DownloadOps
        /\ last'.outcome = "ok"
        /\ last'.key = last.key)
       => localFS'[TargetOf(last')] = localFS[last.local]]_vars


\* the latest call is an upload_file of HCPManager for a local file of 0
\* bytes that got to an attached bucket and whose request was not refused
\* by the store or the network
EmptyUpload ==
    /\ last.op = "M.upload_file"
    /\ last.local \in LocalFiles
    /\ SizeOf(LocalData(last.local)) = 0
    /\ last.reqs # <<>>
    /\ last.outcome # "S3UploadFailedError"

ErrorClass(exc) ==
    IF exc = "VPNConnectionError" THEN "network"
    ELSE IF exc \in {"BucketNotFound", CouldNotFindObject} THEN "not-found"
    ELSE "unclassified"

\* C23: when the store or the connection has raised an error during
\* test_connection, mount_bucket or download_file of HCPHandler, the call
\* raises an error of the same kind (network, auth, not-found): no other
\* failure is reported as not-found, and none as an error of no kind.
C23_ErrorsKeepTheirClass ==
    (/\ last.op \in {"H.test_connection", "H.mount_bucket", "H.download_file"}
     /\ last.cause # "none")
    => /\ last.outcome # "ok"
       /\ ErrorClass(last.outcome) = last.cause


\* s begins with prefix, character for character
StartsWith(s, prefix) ==
    /\ Len(s) >= Len(prefix)
    /\ SubSeq(s, 1, Len(prefix)) = prefix

\* C24: every key HCPHandler.delete_folder passes to delete_objects is the
\* folder key (with its trailing "/") or begins with the folder key,
\* character for character and in the same case.
C24_DeletesOnlyUnderTheFolderKey ==
    last.op = "H.delete_folder"
    => \A k \in last.keys : StartsWith(k, WithSlash(last.key))


\* C25: a call of HCPHandler.modify_object_acl whose mapping holds a
\* permission outside the list changes the ACL of no object: the store is
\* after the call as it was before, also for the keys that come before the
\* entry with that permission.
C25_InvalidMappingChangesNoAcl ==
    [][(/\ last'.op = "H.modify_object_acl"
        /\ ~(last'.perms \subseteq ValidPermissions))
       => remote' = remote]_vars


\* C26: the listing get_objects or search_objects of HCPManager returns
\* right after an upload_file that has returned holds the uploaded key (when
\* the key contains the string searched for), and the listing returned right
\* after a delete_object that has returned does not hold the deleted key.
C26_ListingsFollowUploadsAndDeletions ==
    [][(last'.op \in MListingOps /\ last'.outcome = "ok")
       => /\ (/\ last.op = "M.upload_file"
              /\ last.outcome = "ok"
              /\ Contains(last.key, last'.key))
             => \E o \in last'.objs : o.key = last.key
          /\ (last.op = "M.delete_object" /\ last.outcome = "ok")
             => \A o \in last'.objs : o.key # last.key]_vars

====
